---- MODULE Spec2Model ----
(***************************************************************************)
(* A model of src/dsa/sparse_matrix/code/src/sparse_matrix.py: the class   *)
(* SparseMatrix (dictionary-of-dictionaries storage, element access,       *)
(* add/subtract/multiply, the text file parser and save_to_file).          *)
(*                                                                         *)
(* A Python dict is modelled as the sequence of its <<key, value>> items   *)
(* in insertion order, so that "for k, v in d.items()" is a walk over the  *)
(* sequence.  A str is the sequence of its characters.  A Python int is an *)
(* unbounded integer.  An exception is a record naming its Python type,    *)
(* the failure it reports and the line number its message prints (0 when   *)
(* the message prints none).                                               *)
(***************************************************************************)
EXTENDS Integers, Sequences, FiniteSets, TLC

\* ------------------------------------------------------------------ bounds
\* Largest row/column count of a matrix built from dimensions.
MaxDim == 2
\* Largest absolute value passed to set_element by a caller.
MaxVal == 1
\* Largest number of live matrix objects.
MaxObjs == 3
\* Largest number of entries stored over all live matrix objects.
MaxStored == 2
\* Largest number of set_element calls that build an operand matrix.
MaxEntries == 2
\* Largest number of lines of a file to parse.
MaxLines == 4

\* ------------------------------------------------------------- exceptions
NoExc == [type |-> "none", kind |-> "none", line |-> 0]
\* raise <type>(<message>); line is the line number the message prints, or 0
Raise(type, kind, line) == [type |-> type, kind |-> kind, line |-> line]

\* ------------------------------------------------------------ Python dict
DictIndex(d, k) ==
    LET S == {i \in 1..Len(d) : d[i][1] = k}
    IN  IF S = {} THEN 0 ELSE CHOOSE i \in S : TRUE
\* k in d
DictHas(d, k) == DictIndex(d, k) /= 0
\* d.get(k, default)
DictGet(d, k, default) ==
    IF DictHas(d, k) THEN d[DictIndex(d, k)][2] ELSE default
\* d[k] = v (an existing key keeps its place, a new one goes last)
DictSet(d, k, v) ==
    IF DictHas(d, k) THEN [d EXCEPT ![DictIndex(d, k)] = <<k, v>>]
    ELSE Append(d, <<k, v>>)
\* del d[k]
DictDel(d, k) ==
    LET i == DictIndex(d, k)
    IN  SubSeq(d, 1, i - 1) \o SubSeq(d, i + 1, Len(d))

\* ----------------------------------------------------------- SparseMatrix
\* The fields __init__ sets before it looks at its arguments.
BlankMatrix ==
    [matrix_data |-> <<>>, file_declared_max_row |-> -1,
     file_declared_max_col |-> -1, rows |-> 0, cols |-> 0]

\* SparseMatrix(source, num_cols) with two ints.
init_dims(source, num_cols) ==
    IF source < 0 \/ num_cols < 0
    THEN [exc |-> Raise("ValueError", "InvalidDimensions", 0), self |-> BlankMatrix]
    ELSE [exc |-> NoExc,
          self |-> [BlankMatrix EXCEPT !.rows = source, !.cols = num_cols,
                                       !.file_declared_max_row = source - 1,
                                       !.file_declared_max_col = num_cols - 1]]

\* Mutant of InBounds: the upper bound of the row is taken inclusive.
InBounds_inclusive(self, curr_row, curr_col) ==
    0 <= curr_row /\ curr_row <= self.rows /\ 0 <= curr_col /\ curr_col < self.cols

InBounds(self, curr_row, curr_col) ==
    0 <= curr_row /\ curr_row < self.rows /\ 0 <= curr_col /\ curr_col < self.cols

get_element(self, curr_row, curr_col) ==
    IF ~InBounds(self, curr_row, curr_col)
    THEN [exc |-> Raise("IndexError", "IndexOutOfBounds", 0), val |-> 0]
    ELSE [exc |-> NoExc,
          val |-> DictGet(DictGet(self.matrix_data, curr_row, <<>>), curr_col, 0)]

\* Mutant of set_element: a value of 0 is ignored, the stored entry stays.
set_element_nodelete(self, curr_row, curr_col, value) ==
    IF ~InBounds(self, curr_row, curr_col)
    THEN [exc |-> Raise("IndexError", "IndexOutOfBounds", 0), self |-> self]
    ELSE IF value = 0
    THEN [exc |-> NoExc, self |-> self]
    ELSE [exc |-> NoExc,
          self |-> [self EXCEPT !.matrix_data =
                       DictSet(@, curr_row,
                               DictSet(DictGet(@, curr_row, <<>>), curr_col, value))]]

set_element(self, curr_row, curr_col, value) ==
    IF ~InBounds(self, curr_row, curr_col)
    THEN [exc |-> Raise("IndexError", "IndexOutOfBounds", 0), self |-> self]
    ELSE IF value = 0
    THEN IF DictHas(self.matrix_data, curr_row)
            /\ DictHas(DictGet(self.matrix_data, curr_row, <<>>), curr_col)
         THEN LET row == DictDel(DictGet(self.matrix_data, curr_row, <<>>), curr_col)
              IN  [exc |-> NoExc,
                   self |-> [self EXCEPT !.matrix_data =
                                IF row = <<>> THEN DictDel(@, curr_row)
                                ELSE DictSet(@, curr_row, row)]]
         ELSE [exc |-> NoExc, self |-> self]
    ELSE [exc |-> NoExc,
          self |-> [self EXCEPT !.matrix_data =
                       DictSet(@, curr_row,
                               DictSet(DictGet(@, curr_row, <<>>), curr_col, value))]]

\* The two lambdas of add and subtract.
ApplyOperation(operation, x, y) ==
    IF operation = "add" THEN x + y ELSE x - y

\* operate, first loop: copy self into the result.
RECURSIVE operate_copy_row(_, _, _, _)
operate_copy_row(acc, r, cols_data, j) ==
    IF j > Len(cols_data) \/ acc.exc /= NoExc THEN acc
    ELSE operate_copy_row(set_element(acc.self, r, cols_data[j][1], cols_data[j][2]),
                          r, cols_data, j + 1)

RECURSIVE operate_copy(_, _, _)
operate_copy(acc, data, i) ==
    IF i > Len(data) \/ acc.exc /= NoExc THEN acc
    ELSE operate_copy(operate_copy_row(acc, data[i][1], data[i][2], 1), data, i + 1)

\* operate, second loop: combine the entries of other_matrix into the result.
\* Mutant of operate_combine_cell: the value of other_matrix is combined
\* with 0, not with what the result holds.
operate_combine_cell_overwrite(acc, r, c, val, operation) ==
    LET current == get_element(acc.self, r, c)
    IN  IF current.exc /= NoExc THEN [exc |-> current.exc, self |-> acc.self]
        ELSE set_element(acc.self, r, c, ApplyOperation(operation, 0, val))

operate_combine_cell(acc, r, c, val, operation) ==
    LET current == get_element(acc.self, r, c)
    IN  IF current.exc /= NoExc THEN [exc |-> current.exc, self |-> acc.self]
        ELSE set_element(acc.self, r, c, ApplyOperation(operation, current.val, val))

RECURSIVE operate_combine_row(_, _, _, _, _)
operate_combine_row(acc, r, cols_data, j, operation) ==
    IF j > Len(cols_data) \/ acc.exc /= NoExc THEN acc
    ELSE operate_combine_row(
             operate_combine_cell(acc, r, cols_data[j][1], cols_data[j][2], operation),
             r, cols_data, j + 1, operation)

RECURSIVE operate_combine(_, _, _, _)
operate_combine(acc, data, i, operation) ==
    IF i > Len(data) \/ acc.exc /= NoExc THEN acc
    ELSE operate_combine(operate_combine_row(acc, data[i][1], data[i][2], 1, operation),
                         data, i + 1, operation)

operate(self, other_matrix, operation) ==
    IF self.rows /= other_matrix.rows \/ self.cols /= other_matrix.cols
    THEN [exc |-> Raise("ValueError", "DimensionMismatch", 0), self |-> BlankMatrix]
    ELSE LET result_matrix == init_dims(self.rows, self.cols)
         IN  operate_combine(operate_copy(result_matrix, self.matrix_data, 1),
                             other_matrix.matrix_data, 1, operation)

add(self, other_matrix) == operate(self, other_matrix, "add")

subtract(self, other_matrix) == operate(self, other_matrix, "subtract")

\* Mutant of multiply_inner: the product replaces what the result holds.
RECURSIVE multiply_inner_overwrite(_, _, _, _, _)
multiply_inner_overwrite(acc, r1, val1, row_data2, k) ==
    IF k > Len(row_data2) \/ acc.exc /= NoExc THEN acc
    ELSE LET c2 == row_data2[k][1]
             val2 == row_data2[k][2]
             current == get_element(acc.self, r1, c2)
         IN  multiply_inner_overwrite(
                 IF current.exc /= NoExc THEN [exc |-> current.exc, self |-> acc.self]
                 ELSE set_element(acc.self, r1, c2, val1 * val2),
                 r1, val1, row_data2, k + 1)

\* multiply, innermost loop: for c2, val2 in other_matrix.matrix_data[c1].items()
RECURSIVE multiply_inner(_, _, _, _, _)
multiply_inner(acc, r1, val1, row_data2, k) ==
    IF k > Len(row_data2) \/ acc.exc /= NoExc THEN acc
    ELSE LET c2 == row_data2[k][1]
             val2 == row_data2[k][2]
             current == get_element(acc.self, r1, c2)
         IN  multiply_inner(
                 IF current.exc /= NoExc THEN [exc |-> current.exc, self |-> acc.self]
                 ELSE set_element(acc.self, r1, c2, current.val + val1 * val2),
                 r1, val1, row_data2, k + 1)

RECURSIVE multiply_row(_, _, _, _, _)
multiply_row(acc, r1, row_data1, j, other_data) ==
    IF j > Len(row_data1) \/ acc.exc /= NoExc THEN acc
    ELSE LET c1 == row_data1[j][1]
             val1 == row_data1[j][2]
         IN  multiply_row(
                 IF DictHas(other_data, c1)
                 THEN multiply_inner(acc, r1, val1, DictGet(other_data, c1, <<>>), 1)
                 ELSE acc,
                 r1, row_data1, j + 1, other_data)

RECURSIVE multiply_rows(_, _, _, _)
multiply_rows(acc, data, i, other_data) ==
    IF i > Len(data) \/ acc.exc /= NoExc THEN acc
    ELSE multiply_rows(multiply_row(acc, data[i][1], data[i][2], 1, other_data),
                       data, i + 1, other_data)

\* Mutant of multiply: the result takes its column count from other's rows.
multiply_wrongshape(self, other_matrix) ==
    IF self.cols /= other_matrix.rows
    THEN [exc |-> Raise("ValueError", "IncompatibleDimensions", 0), self |-> BlankMatrix]
    ELSE LET result_matrix == init_dims(self.rows, other_matrix.rows)
         IN  multiply_rows(result_matrix, self.matrix_data, 1, other_matrix.matrix_data)

multiply(self, other_matrix) ==
    IF self.cols /= other_matrix.rows
    THEN [exc |-> Raise("ValueError", "IncompatibleDimensions", 0), self |-> BlankMatrix]
    ELSE LET result_matrix == init_dims(self.rows, other_matrix.cols)
         IN  multiply_rows(result_matrix, self.matrix_data, 1, other_matrix.matrix_data)

\* ------------------------------------------------------------- Python str
\* The characters str.strip() removes.
IsSpace(ch) == ch \in {" ", "\t", "\n"}

RECURSIVE lstrip(_)
lstrip(s) == IF s /= <<>> /\ IsSpace(Head(s)) THEN lstrip(Tail(s)) ELSE s

RECURSIVE rstrip(_)
rstrip(s) ==
    IF s /= <<>> /\ IsSpace(s[Len(s)]) THEN rstrip(SubSeq(s, 1, Len(s) - 1)) ELSE s

\* s.strip()
strip(s) == rstrip(lstrip(s))

\* s.startswith(prefix)
startswith(s, prefix) ==
    Len(s) >= Len(prefix) /\ SubSeq(s, 1, Len(prefix)) = prefix

\* s.endswith(suffix)
endswith(s, suffix) ==
    Len(s) >= Len(suffix) /\ SubSeq(s, Len(s) - Len(suffix) + 1, Len(s)) = suffix

\* s.split(sep) for a one-character sep: the parts between the separators
\* (an empty string gives one empty part).
RECURSIVE split_from(_, _, _, _)
split_from(s, sep, i, part) ==
    IF i > Len(s) THEN <<part>>
    ELSE IF s[i] = sep THEN <<part>> \o split_from(s, sep, i + 1, <<>>)
    ELSE split_from(s, sep, i + 1, Append(part, s[i]))
split(s, sep) == split_from(s, sep, 1, <<>>)

\* The decimal digits, in order of value.
DecimalChars == <<"0", "1", "2", "3", "4", "5", "6", "7", "8", "9">>
IsDecimalChar(ch) == \E i \in 1..Len(DecimalChars) : DecimalChars[i] = ch
\* str.isdigit() also accepts the digits that are no decimal digits (such as
\* SUPERSCRIPT TWO), which int() refuses.
IsDigitChar(ch) == IsDecimalChar(ch) \/ ch = "²"

\* s.isdigit()
isdigit(s) == s /= <<>> /\ \A i \in 1..Len(s) : IsDigitChar(s[i])

DecimalValue(ch) == (CHOOSE i \in 1..Len(DecimalChars) : DecimalChars[i] = ch) - 1

RECURSIVE DigitsValue(_, _)
DigitsValue(s, acc) ==
    IF s = <<>> THEN acc ELSE DigitsValue(Tail(s), 10 * acc + DecimalValue(Head(s)))

\* int(s): surrounding whitespace, an optional sign, decimal digits.
py_int(s) ==
    LET t == strip(s)
        signed == t /= <<>> /\ Head(t) \in {"+", "-"}
        digits == IF signed THEN Tail(t) ELSE t
    IN  IF digits = <<>> \/ \E i \in 1..Len(digits) : ~IsDecimalChar(digits[i])
        THEN [exc |-> Raise("ValueError", "InvalidLiteral", 0), val |-> 0]
        ELSE [exc |-> NoExc,
              val |-> IF signed /\ Head(t) = "-" THEN 0 - DigitsValue(digits, 0)
                      ELSE DigitsValue(digits, 0)]

\* str(n) of an int, as f"{n}" writes it.
RECURSIVE NatToStr(_)
NatToStr(n) ==
    IF n < 10 THEN <<DecimalChars[n + 1]>>
    ELSE Append(NatToStr(n \div 10), DecimalChars[(n % 10) + 1])
py_str(n) == IF n < 0 THEN <<"-">> \o NatToStr(0 - n) ELSE NatToStr(n)

\* f.readlines(): the lines of the text, each with its line break.
RECURSIVE readlines_from(_, _, _)
readlines_from(text, i, line) ==
    IF i > Len(text) THEN (IF line = <<>> THEN <<>> ELSE <<line>>)
    ELSE IF text[i] = "\n" THEN <<Append(line, "\n")>> \o readlines_from(text, i + 1, <<>>)
    ELSE readlines_from(text, i + 1, Append(line, text[i]))
readlines(text) == readlines_from(text, 1, <<>>)

\* ------------------------------------------------------------- the parser
\* _is_valid_int
is_valid_int(s_val) ==
    LET s == strip(s_val)
    IN  IF s = <<>> THEN FALSE
        ELSE IF Head(s) \in {"+", "-"} THEN Len(s) > 1 /\ isdigit(Tail(s))
        ELSE isdigit(s)

\* _validate_and_set_dimension
validate_and_set_dimension(self, val_str, line_num, raw_line, dim_type) ==
    IF ~is_valid_int(val_str)
    THEN [exc |-> Raise("ValueError", "MalformedHeader", 0), self |-> self]
    ELSE LET declared_max == py_int(val_str)
         IN  IF declared_max.exc /= NoExc THEN [exc |-> declared_max.exc, self |-> self]
             ELSE IF declared_max.val < -1
             THEN [exc |-> Raise("ValueError", "HeaderOutOfRange", 0), self |-> self]
             ELSE IF dim_type = "row"
             THEN [exc |-> NoExc,
                   self |-> [self EXCEPT !.file_declared_max_row = declared_max.val,
                                         !.rows = declared_max.val + 1]]
             ELSE [exc |-> NoExc,
                   self |-> [self EXCEPT !.file_declared_max_col = declared_max.val,
                                         !.cols = declared_max.val + 1]]

\* The messages that hold "Input file has wrong format": every ValueError the
\* parser words itself; not the one int() raises, nor an IndexError.
HasWrongFormatText(e) ==
    e.type = "ValueError" /\ e.kind /= "InvalidLiteral"

RowsPrefix == <<"r", "o", "w", "s", "=">>
ColsPrefix == <<"c", "o", "l", "s", "=">>

\* Mutant of headers_missing: "and" for "or".
headers_missing_both(p_rows, p_cols) == ~p_rows /\ ~p_cols

\* The condition "not parsed_rows or not parsed_cols".
headers_missing(p_rows, p_cols) == ~p_rows \/ ~p_cols

\* The body of a "rows=" / "cols=" branch after the duplicate check: the try
\* block and its except clause.
parse_header(self, line, line_num, raw_line, dim_type) ==
    LET fields == split(line, "=")
    IN  IF Len(fields) < 2
        THEN [exc |-> Raise("ValueError", "MalformedHeader", line_num + 1), self |-> self]
        ELSE LET val_str == strip(fields[2])
                 r == validate_and_set_dimension(self, val_str, line_num, raw_line, dim_type)
             IN  IF r.exc = NoExc \/ HasWrongFormatText(r.exc) THEN r
                 ELSE [exc |-> Raise("ValueError", "MalformedHeader", line_num + 1),
                       self |-> self]

\* The body of the "(...)" branch after the headers check.
parse_entry(self, line, line_num) ==
    LET inner == strip(SubSeq(line, 2, Len(line) - 1))
        raw_parts == split(inner, ",")
        parts == [i \in 1..Len(raw_parts) |-> strip(raw_parts[i])]
    IN  IF Len(parts) /= 3 \/ \E i \in 1..Len(parts) : ~is_valid_int(parts[i])
        THEN [exc |-> Raise("ValueError", "MalformedEntry", line_num + 1), self |-> self]
        ELSE LET r == py_int(parts[1])
                 c == py_int(parts[2])
                 v == py_int(parts[3])
             IN  IF r.exc /= NoExc THEN [exc |-> r.exc, self |-> self]
                 ELSE IF c.exc /= NoExc THEN [exc |-> c.exc, self |-> self]
                 ELSE IF v.exc /= NoExc THEN [exc |-> v.exc, self |-> self]
                 ELSE IF ~InBounds(self, r.val, c.val)
                 THEN [exc |-> Raise("ValueError", "EntryOutOfBounds", 0), self |-> self]
                 ELSE set_element(self, r.val, c.val, v.val)

\* One turn of the loop "for line_num, raw_line in enumerate(lines)": the
\* matrix, the two flags and the exception raised, if any.
parse_line(self, p_rows, p_cols, line_num, raw_line) ==
    LET line == strip(raw_line)
        same(e) == [exc |-> e, self |-> self, parsed_rows |-> p_rows, parsed_cols |-> p_cols]
    IN  IF line = <<>> THEN same(NoExc)
        ELSE IF startswith(line, RowsPrefix)
        THEN IF p_rows THEN same(Raise("ValueError", "DuplicateHeader", 0))
             ELSE LET r == parse_header(self, line, line_num, raw_line, "row")
                  IN  [exc |-> r.exc, self |-> r.self,
                       parsed_rows |-> (r.exc = NoExc), parsed_cols |-> p_cols]
        ELSE IF startswith(line, ColsPrefix)
        THEN IF p_cols THEN same(Raise("ValueError", "DuplicateHeader", 0))
             ELSE LET r == parse_header(self, line, line_num, raw_line, "col")
                  IN  [exc |-> r.exc, self |-> r.self,
                       parsed_rows |-> p_rows, parsed_cols |-> (r.exc = NoExc)]
        ELSE IF startswith(line, <<"(">>) /\ endswith(line, <<")">>)
        THEN IF headers_missing(p_rows, p_cols) THEN same(Raise("ValueError", "HeaderMissing", 0))
             ELSE LET r == parse_entry(self, line, line_num)
                  IN  [exc |-> r.exc, self |-> r.self,
                       parsed_rows |-> p_rows, parsed_cols |-> p_cols]
        ELSE same(Raise("ValueError", "UnrecognizedLine", line_num + 1))

\* save_to_file: the text written.
RECURSIVE save_cols(_, _, _)
save_cols(r, row, cs) ==
    IF cs = <<>> THEN <<>>
    ELSE LET c == Head(cs)
             value == DictGet(row, c, 0)
         IN  (IF value /= 0
              THEN <<"(">> \o py_str(r) \o <<",", " ">> \o py_str(c) \o <<",", " ">>
                   \o py_str(value) \o <<")", "\n">>
              ELSE <<>>)
             \o save_cols(r, row, Tail(cs))

\* sorted(d.keys())
RECURSIVE SortedSeq(_)
SortedSeq(S) ==
    IF S = {} THEN <<>>
    ELSE LET m == CHOOSE x \in S : \A y \in S : x <= y
         IN  <<m>> \o SortedSeq(S \ {m})
sorted_keys(d) == SortedSeq({d[i][1] : i \in 1..Len(d)})

RECURSIVE save_rows(_, _)
save_rows(data, rs) ==
    IF rs = <<>> THEN <<>>
    ELSE LET row == DictGet(data, Head(rs), <<>>)
         IN  save_cols(Head(rs), row, sorted_keys(row)) \o save_rows(data, Tail(rs))

\* Mutant of save_to_file: the headers give the counts, not the largest index.
save_to_file_counts(self) ==
    RowsPrefix \o py_str(self.rows) \o <<"\n">>
    \o ColsPrefix \o py_str(self.cols) \o <<"\n">>
    \o save_rows(self.matrix_data, sorted_keys(self.matrix_data))

save_to_file(self) ==
    RowsPrefix \o py_str(self.rows - 1) \o <<"\n">>
    \o ColsPrefix \o py_str(self.cols - 1) \o <<"\n">>
    \o save_rows(self.matrix_data, sorted_keys(self.matrix_data))

\* ------------------------------------------------------------ observation
\* The stored entries of a matrix, as a set of <<row, col, value>>.
Entries(m) ==
    UNION {{<<m.matrix_data[i][1], m.matrix_data[i][2][j][1], m.matrix_data[i][2][j][2]>> :
              j \in 1..Len(m.matrix_data[i][2])} : i \in 1..Len(m.matrix_data)}

\* The number of stored items, counted item by item (a repeated key counts twice).
RECURSIVE StoredFrom(_, _)
StoredFrom(data, i) ==
    IF i > Len(data) THEN 0 ELSE Len(data[i][2]) + StoredFrom(data, i + 1)
Stored(m) == StoredFrom(m.matrix_data, 1)

RECURSIVE StoredInHeap(_, _)
StoredInHeap(h, i) ==
    IF i > Len(h) THEN 0 ELSE Stored(h[i]) + StoredInHeap(h, i + 1)

\* ------------------------------------------------------------------ state
VARIABLES
    heap,         \* the live SparseMatrix objects; an object's identity is its index
    last,         \* the call made last: its arguments, what it returned or raised
    fs,           \* the file at the path: whether it exists, and its text
    pc,           \* "idle", or where the running _parse_file is
    lines,        \* _parse_file: lines
    idx,          \* _parse_file: the number of lines the loop has taken
    parsed_rows,  \* _parse_file: parsed_rows
    parsed_cols,  \* _parse_file: parsed_cols
    exc           \* _parse_file: the exception it raised

vars == <<heap, last, fs, pc, lines, idx, parsed_rows, parsed_cols, exc>>
parserVars == <<pc, lines, idx, parsed_rows, parsed_cols, exc>>

Call(op, self, other, value, ret, e) ==
    [op |-> op, self |-> self, other |-> other, value |-> value, ret |-> ret, exc |-> e]

NoCall == Call("none", 0, 0, 0, 0, NoExc)
NoFile == [exists |-> FALSE, text |-> <<>>]

\* The matrix under construction while _parse_file runs.
Cur == Len(heap)

\* ---------------------------------------------------------------- actions
\* SparseMatrix(source, num_cols)
New(source, num_cols) ==
    LET r == init_dims(source, num_cols)
    IN  /\ pc = "idle"
        /\ heap' = IF r.exc = NoExc THEN Append(heap, r.self) ELSE heap
        /\ last' = Call("new", 0, 0, 0,
                        IF r.exc = NoExc THEN Len(heap) + 1 ELSE 0, r.exc)
        /\ UNCHANGED <<fs, parserVars>>

SetElement(id, curr_row, curr_col, value) ==
    LET r == set_element(heap[id], curr_row, curr_col, value)
    IN  /\ pc = "idle"
        /\ heap' = [heap EXCEPT ![id] = r.self]
        /\ last' = Call("set", id, 0, value, 0, r.exc)
        /\ UNCHANGED <<fs, parserVars>>

\* Mutant of Returned: the result is built in self, not in a new object.
Returned_inplace(op, id, other, r) ==
    /\ pc = "idle"
    /\ heap' = IF r.exc = NoExc THEN [heap EXCEPT ![id] = r.self] ELSE heap
    /\ last' = Call(op, id, other, 0, IF r.exc = NoExc THEN id ELSE 0, r.exc)
    /\ UNCHANGED <<fs, parserVars>>

\* The caller's side of add, subtract and multiply: the returned matrix is a
\* new object; a raised exception leaves none.
Returned(op, id, other, r) ==
    /\ pc = "idle"
    /\ heap' = IF r.exc = NoExc THEN Append(heap, r.self) ELSE heap
    /\ last' = Call(op, id, other, 0,
                    IF r.exc = NoExc THEN Len(heap) + 1 ELSE 0, r.exc)
    /\ UNCHANGED <<fs, parserVars>>

Add(id, other) == Returned("add", id, other, add(heap[id], heap[other]))

Subtract(id, other) == Returned("subtract", id, other, subtract(heap[id], heap[other]))

Multiply(id, other) == Returned("multiply", id, other, multiply(heap[id], heap[other]))

SaveToFile(id) ==
    /\ pc = "idle"
    /\ fs' = [exists |-> TRUE, text |-> save_to_file(heap[id])]
    /\ last' = Call("save", id, 0, 0, 0, NoExc)
    /\ UNCHANGED <<heap, parserVars>>

\* SparseMatrix(path): __init__ up to the loop of _parse_file.
LoadStart ==
    /\ pc = "idle"
    /\ IF ~fs.exists
       THEN /\ last' = Call("load", 0, 0, 0, 0,
                            Raise("FileNotFoundError", "FileNotFound", 0))
            /\ UNCHANGED <<heap, parserVars>>
       ELSE /\ heap' = Append(heap, [BlankMatrix EXCEPT !.file_declared_max_row = -2,
                                                         !.file_declared_max_col = -2])
            /\ last' = Call("load", 0, 0, 0, 0, NoExc)
            /\ pc' = "loop"
            /\ lines' = readlines(fs.text)
            /\ idx' = 0
            /\ parsed_rows' = FALSE
            /\ parsed_cols' = FALSE
            /\ exc' = NoExc
    /\ UNCHANGED fs

\* One turn of the loop of _parse_file.
ParseLine ==
    /\ pc = "loop"
    /\ idx < Len(lines)
    /\ LET r == parse_line(heap[Cur], parsed_rows, parsed_cols, idx, lines[idx + 1])
       IN  /\ heap' = [heap EXCEPT ![Cur] = r.self]
           /\ parsed_rows' = r.parsed_rows
           /\ parsed_cols' = r.parsed_cols
           /\ exc' = r.exc
           /\ pc' = IF r.exc = NoExc THEN "loop" ELSE "raised"
    /\ idx' = idx + 1
    /\ UNCHANGED <<last, fs, lines>>

\* After the loop: the check that both headers were seen.
ParseEnd ==
    /\ pc = "loop"
    /\ idx = Len(lines)
    /\ IF headers_missing(parsed_rows, parsed_cols)
       THEN pc' = "raised" /\ exc' = Raise("ValueError", "MissingHeaders", 0)
       ELSE pc' = "done" /\ exc' = NoExc
    /\ UNCHANGED <<heap, last, fs, lines, idx, parsed_rows, parsed_cols>>

\* The constructor returns the matrix read.
LoadReturn ==
    /\ pc = "done"
    /\ pc' = "idle"
    /\ last' = Call("load", 0, 0, 0, Cur, NoExc)
    /\ UNCHANGED <<heap, fs, lines, idx, parsed_rows, parsed_cols, exc>>

\* The exception leaves the constructor: the caller gets no matrix.
LoadRaise ==
    /\ pc = "raised"
    /\ pc' = "idle"
    /\ heap' = SubSeq(heap, 1, Len(heap) - 1)
    /\ last' = Call("load", 0, 0, 0, 0, exc)
    /\ UNCHANGED <<fs, lines, idx, parsed_rows, parsed_cols, exc>>

Parse == ParseLine \/ ParseEnd \/ LoadReturn \/ LoadRaise

ParserIdle ==
    /\ pc = "idle"
    /\ lines = <<>>
    /\ idx = 0
    /\ parsed_rows = FALSE
    /\ parsed_cols = FALSE
    /\ exc = NoExc

\* ----------------------------------------------------------------- inputs
RowsLine(v) == RowsPrefix \o v \o <<"\n">>
ColsLine(v) == ColsPrefix \o v \o <<"\n">>
EntryLine(r, c, v) == <<"(">> \o r \o <<",">> \o c \o <<",">> \o v \o <<")", "\n">>

\* The files the object-level specification loads.
SpecFiles ==
    { RowsLine(<<"1">>) \o ColsLine(<<"1">>) \o EntryLine(<<"1">>, <<"1">>, <<"1">>)
          \o RowsLine(<<"0">>),
      RowsLine(<<"1">>) \o ColsLine(<<"+", "1">>) \o EntryLine(<<"0">>, <<" ", "1">>, <<"-", "1">>)
          \o EntryLine(<<"0">>, <<"1">>, <<"0">>),
      ColsLine(<<"0">>) \o RowsLine(<<"-", "1">>) \o EntryLine(<<"0">>, <<"0">>, <<"1">>) }

Dims == {-1, 0, MaxDim}
Indices == 0..MaxDim
Values == (0 - MaxVal)..MaxVal
Ids == 1..Len(heap)

\* The matrices that at most n calls of set_element (in-bounds, non-zero
\* values of vals) build from SparseMatrix(rows, cols).
RECURSIVE Build(_, _, _)
Build(m, calls, i) ==
    IF i > Len(calls) THEN m
    ELSE Build(set_element(m, calls[i][1], calls[i][2], calls[i][3]).self, calls, i + 1)

Built(rows, cols, n, vals) ==
    LET cells == (0..(rows - 1)) \X (0..(cols - 1)) \X (vals \ {0})
    IN  {Build(init_dims(rows, cols).self, calls, 1) :
             calls \in UNION {[1..k -> cells] : k \in 0..n}}

\* ------------------------------------------- specification: matrix objects
\* A program that builds matrices from dimensions, or starts from a file.
Init ==
    /\ heap = <<>>
    /\ last = NoCall
    /\ fs \in {NoFile} \cup {[exists |-> TRUE, text |-> t] : t \in SpecFiles}
    /\ ParserIdle

\* The bounds of the exploration: the last free place is kept for a matrix
\* that an operation returns or that is read from the file.
Capacity == IF fs.exists THEN MaxObjs - 1 ELSE MaxObjs
Bounded == StoredInHeap(heap', 1) <= MaxStored

Next ==
    \/ \E source \in Dims, num_cols \in Dims :
           Len(heap) < Capacity - 1 /\ New(source, num_cols)
    \/ \E id \in Ids, r \in Indices, c \in Indices, v \in Values :
           SetElement(id, r, c, v) /\ Bounded
    \/ \E id \in Ids, other \in Ids :
           Len(heap) < Capacity /\ Add(id, other) /\ Bounded
    \/ \E id \in Ids, other \in Ids :
           Len(heap) < Capacity /\ Subtract(id, other) /\ Bounded
    \/ \E id \in Ids, other \in Ids :
           Len(heap) < Capacity /\ Multiply(id, other) /\ Bounded
    \/ Len(heap) < Capacity /\ LoadStart
    \/ Parse

Spec == Init /\ [][Next]_vars

\* ---------------------------------------------- specification: arithmetic
\* Two operands, then one of add, subtract, multiply on any pair of them.
ArithMats ==
    UNION {Built(rows, cols, MaxEntries, Values) : rows \in 0..MaxDim, cols \in 0..MaxDim}

InitArith ==
    /\ heap \in [1..2 -> ArithMats]
    /\ last = NoCall
    /\ fs = NoFile
    /\ ParserIdle

NextArith ==
    /\ Len(heap) = 2
    /\ \E id \in Ids, other \in Ids :
           Add(id, other) \/ Subtract(id, other) \/ Multiply(id, other)

SpecArith == InitArith /\ [][NextArith]_vars

\* ------------------------------------------ specification: distributivity
\* heap = <<A, B, C>>, then add(B, C), multiply(A, .), multiply(A, B),
\* multiply(A, C), add(., .): objects 4 to 8.
InitDistrib ==
    /\ \E rows \in 0..MaxDim, inner \in 0..MaxDim, cols \in 0..MaxDim :
           \E A \in Built(rows, inner, MaxEntries, Values),
              B \in Built(inner, cols, MaxEntries - 1, Values),
              C \in Built(inner, cols, MaxEntries - 1, Values) :
               heap = <<A, B, C>>
    /\ last = NoCall
    /\ fs = NoFile
    /\ ParserIdle

NextDistrib ==
    /\ last.exc = NoExc
    /\ \/ Len(heap) = 3 /\ Add(2, 3)
       \/ Len(heap) = 4 /\ Multiply(1, 4)
       \/ Len(heap) = 5 /\ Multiply(1, 2)
       \/ Len(heap) = 6 /\ Multiply(1, 3)
       \/ Len(heap) = 7 /\ Add(6, 7)

SpecDistrib == InitDistrib /\ [][NextDistrib]_vars

\* -------------------------------------------------- specification: parser
\* The lines a file is made of.
SampleLines ==
    { RowsLine(<<"1">>),
      ColsLine(<<"1">>),
      RowsLine(<<"2", "=", "3">>),
      ColsLine(<<"x">>),
      RowsLine(<<"-", "2">>),
      ColsLine(<<"²">>),
      <<"\n">>,
      EntryLine(<<"0">>, <<" ", "1">>, <<"-", "1">>),
      EntryLine(<<"2">>, <<"0">>, <<"1">>),
      <<"(", "0", ",", "0", ")", "\n">>,
      EntryLine(<<"0">>, <<"²">>, <<"1">>),
      <<"x", "\n">> }

RECURSIVE Concat(_, _)
Concat(ls, i) == IF i > Len(ls) THEN <<>> ELSE ls[i] \o Concat(ls, i + 1)

ParseFiles ==
    {Concat(ls, 1) : ls \in UNION {[1..k -> SampleLines] : k \in 0..MaxLines}}

InitParse ==
    /\ heap = <<>>
    /\ last = NoCall
    /\ fs \in {[exists |-> TRUE, text |-> t] : t \in ParseFiles}
    /\ ParserIdle

NextParse ==
    \/ last = NoCall /\ LoadStart
    \/ Parse

SpecParse == InitParse /\ [][NextParse]_vars

\* ---------------------------------------------- specification: round trip
\* A matrix, save_to_file(path), then SparseMatrix(path).
CodecValues == {-12, -1, 1, 10}

CodecMats ==
    UNION {Built(rows, cols, MaxEntries, CodecValues) :
               rows \in 0..MaxDim, cols \in 0..MaxDim}

InitCodec ==
    /\ heap \in [1..1 -> CodecMats]
    /\ last = NoCall
    /\ fs = NoFile
    /\ ParserIdle

NextCodec ==
    \/ last = NoCall /\ SaveToFile(1)
    \/ last.op = "save" /\ LoadStart
    \/ ParseLine
    \/ ParseEnd
    \/ LoadReturn

SpecCodec == InitCodec /\ [][NextCodec]_vars

\* ------------------------------------------------------------------ claims
\* The cells of a matrix.
CellsOf(m) == (0..(m.rows - 1)) \X (0..(m.cols - 1))
\* What get_element returns for a cell.
Get(m, r, c) == get_element(m, r, c).val

\* C1: in every reachable state (after construction, at every step of file
\* parsing, after any calls of set_element, and for every matrix add, subtract
\* or multiply returned) every stored entry has a non-zero value and a key
\* with 0 <= row < rows and 0 <= col < cols.
C1_StoredEntriesValid ==
    \A i \in 1..Len(heap) :
        \A a \in 1..Len(heap[i].matrix_data) :
            LET r == heap[i].matrix_data[a][1]
                row == heap[i].matrix_data[a][2]
            IN  \A b \in 1..Len(row) :
                    /\ row[b][2] /= 0
                    /\ 0 <= r /\ r < heap[i].rows
                    /\ 0 <= row[b][1] /\ row[b][1] < heap[i].cols

\* The parser has taken all four lines of a file whose last data line sets
\* to 0 the entry an earlier line stored.
C1_Witness ==
    /\ pc = "loop" /\ idx = 4 /\ Len(lines) = 4
    /\ heap[Cur].rows = 2 /\ heap[Cur].cols = 2
    /\ heap[Cur].matrix_data = <<>>

\* C2: after set_element(r, c, v) on an in-bounds cell, get_element(r, c)
\* returns v; when v /= 0 the number of stored entries grows by at most 1;
\* when v = 0 the entry (r, c) is absent afterwards, and the matrix is left
\* as it was when the entry was absent before.
C2_SetThenGet ==
    [][last'.op = "set" =>
           LET id == last'.self
               v == last'.value
           IN  \A r \in Indices, c \in Indices :
                   (InBounds(heap[id], r, c) /\ SetElement(id, r, c, v)) =>
                       /\ last'.exc = NoExc
                       /\ get_element(heap'[id], r, c) = [exc |-> NoExc, val |-> v]
                       /\ v /= 0 => Stored(heap'[id]) <= Stored(heap[id]) + 1
                       /\ v = 0 => ~\E e \in Entries(heap'[id]) : e[1] = r /\ e[2] = c
                       /\ (v = 0 /\ ~\E e \in Entries(heap[id]) : e[1] = r /\ e[2] = c)
                              => heap'[id] = heap[id]]_vars

\* set_element with value 0 has just removed one of the two stored entries.
C2_Witness ==
    /\ last.op = "set" /\ last.value = 0 /\ last.exc = NoExc
    /\ Stored(heap[last.self]) = 1
    /\ StoredInHeap(heap, 1) = 1
    /\ Len(heap) = 1

\* C3: for A and B of equal dimensions, add (subtract) returns a matrix of
\* the same dimensions whose every cell is A's plus (minus) B's, and that
\* stores exactly the non-zero cells; for other dimensions it fails with
\* DimensionMismatch and returns nothing.
C3_AddSubtractCellwise ==
    last.op \in {"add", "subtract"} =>
        LET A == heap[last.self]
            B == heap[last.other]
            expected(r, c) == IF last.op = "add" THEN Get(A, r, c) + Get(B, r, c)
                              ELSE Get(A, r, c) - Get(B, r, c)
        IN  IF A.rows = B.rows /\ A.cols = B.cols
            THEN /\ last.exc = NoExc
                 /\ Len(heap) = 3 /\ last.ret = 3
                 /\ heap[3].rows = A.rows /\ heap[3].cols = A.cols
                 /\ \A cell \in CellsOf(A) :
                        get_element(heap[3], cell[1], cell[2])
                            = [exc |-> NoExc, val |-> expected(cell[1], cell[2])]
                 /\ Entries(heap[3]) =
                        {<<cell[1], cell[2], expected(cell[1], cell[2])>> :
                             cell \in {x \in CellsOf(A) : expected(x[1], x[2]) /= 0}}
                 /\ Stored(heap[3]) = Cardinality(Entries(heap[3]))
            ELSE /\ last.exc.kind = "DimensionMismatch"
                 /\ Len(heap) = 2 /\ last.ret = 0

\* add of two distinct matrices has returned: one cell is stored in A only,
\* one cell of A and B cancels to 0.
C3_Witness ==
    /\ last.op = "add" /\ last.exc = NoExc /\ last.self /= last.other
    /\ \E cell \in CellsOf(heap[1]) :
           /\ Get(heap[1], cell[1], cell[2]) /= 0
           /\ Get(heap[2], cell[1], cell[2]) = 0
    /\ \E cell \in CellsOf(heap[1]) :
           /\ Get(heap[1], cell[1], cell[2]) /= 0
           /\ Get(heap[2], cell[1], cell[2]) /= 0
           /\ Get(heap[3], cell[1], cell[2]) = 0

\* The sum over k < n of A[i, k] * B[k, j].
RECURSIVE DotProduct(_, _, _, _, _)
DotProduct(A, B, i, j, n) ==
    IF n = 0 THEN 0
    ELSE DotProduct(A, B, i, j, n - 1) + Get(A, i, n - 1) * Get(B, n - 1, j)

\* C4: for A.cols = B.rows, multiply returns a matrix of A.rows x B.cols
\* whose cell (i, j) is the sum over k of A[i, k] * B[k, j], and that stores
\* exactly the non-zero cells; otherwise it fails with IncompatibleDimensions
\* and returns nothing.
C4_MultiplyDotProducts ==
    last.op = "multiply" =>
        LET A == heap[last.self]
            B == heap[last.other]
            expected(i, j) == DotProduct(A, B, i, j, A.cols)
        IN  IF A.cols = B.rows
            THEN /\ last.exc = NoExc
                 /\ Len(heap) = 3 /\ last.ret = 3
                 /\ heap[3].rows = A.rows /\ heap[3].cols = B.cols
                 /\ \A cell \in (0..(A.rows - 1)) \X (0..(B.cols - 1)) :
                        get_element(heap[3], cell[1], cell[2])
                            = [exc |-> NoExc, val |-> expected(cell[1], cell[2])]
                 /\ Entries(heap[3]) =
                        {<<cell[1], cell[2], expected(cell[1], cell[2])>> :
                             cell \in {x \in (0..(A.rows - 1)) \X (0..(B.cols - 1)) :
                                           expected(x[1], x[2]) /= 0}}
                 /\ Stored(heap[3]) = Cardinality(Entries(heap[3]))
            ELSE /\ last.exc.kind = "IncompatibleDimensions"
                 /\ Len(heap) = 2 /\ last.ret = 0

\* multiply of two distinct matrices has returned: in one cell two non-zero
\* products cancel, and another cell is stored.
C4_Witness ==
    /\ last.op = "multiply" /\ last.exc = NoExc /\ last.self /= last.other
    /\ LET A == heap[last.self]
           B == heap[last.other]
       IN  \E i \in 0..(A.rows - 1), j \in 0..(B.cols - 1) :
               /\ Get(A, i, 0) * Get(B, 0, j) /= 0
               /\ Get(A, i, 1) * Get(B, 1, j) /= 0
               /\ Get(heap[3], i, j) = 0
    /\ heap[3].rows /= heap[3].cols

\* C5: add, subtract and multiply leave every matrix that existed as it was
\* (self and other included, also when they are one object and when the call
\* fails); a call that succeeds returns a new object, distinct from both,
\* and a call that fails returns none.
C5_OperandsUnchanged ==
    [][last'.op \in {"add", "subtract", "multiply"} =>
           /\ \A i \in 1..Len(heap) : Len(heap') >= i /\ heap'[i] = heap[i]
           /\ IF last'.exc = NoExc
              THEN /\ Len(heap') = Len(heap) + 1
                   /\ last'.ret = Len(heap')
                   /\ last'.ret \notin {last'.self, last'.other}
              ELSE heap' = heap /\ last'.ret = 0]_vars

\* subtract(A, A) of a matrix with stored entries has returned an empty one.
C5_Witness ==
    /\ last.op = "subtract" /\ last.self = last.other /\ last.exc = NoExc
    /\ heap[last.self].matrix_data /= <<>>
    /\ heap[last.ret].matrix_data = <<>>

\* C6: parsing the text save_to_file wrote for a matrix succeeds and gives a
\* matrix with the same rows, the same cols and the same stored entries.
C6_RoundTrip ==
    /\ pc /= "raised"
    /\ (last.op = "load" /\ pc = "idle") =>
           /\ last.exc = NoExc
           /\ Len(heap) = 2 /\ last.ret = 2
           /\ heap[2].rows = heap[1].rows
           /\ heap[2].cols = heap[1].cols
           /\ Entries(heap[2]) = Entries(heap[1])
           /\ Stored(heap[2]) = Stored(heap[1])

\* A saved matrix with two stored entries, one of them -12, has been read back.
C6_Witness ==
    /\ last.op = "load" /\ pc = "idle" /\ last.ret = 2
    /\ Stored(heap[1]) = 2
    /\ \E e \in Entries(heap[2]) : e[3] = -12

\* The failures of the format that name a line of the file.
LineFailures ==
    {"DuplicateHeader", "MalformedHeader", "HeaderOutOfRange", "HeaderMissing",
     "MalformedEntry", "EntryOutOfBounds", "UnrecognizedLine"}

\* C7: every format failure raised while parsing (duplicate header, malformed
\* header, header out of range, data entry before headers, malformed entry,
\* entry out of bounds, unrecognized line) names in its message the 1-based
\* number of the violating line.
C7_MessageNamesLine ==
    (pc = "raised" /\ exc.kind \in LineFailures) => exc.line = idx

\* The lines of the file, as the parser classifies them.
Stripped(j) == strip(lines[j])
IsRowsLine(line) == startswith(line, RowsPrefix)
IsColsLine(line) == startswith(line, ColsPrefix)
IsDataLine(line) ==
    /\ ~IsRowsLine(line) /\ ~IsColsLine(line)
    /\ startswith(line, <<"(">>) /\ endswith(line, <<")">>)
RowsLines(n) == {j \in 1..n : IsRowsLine(Stripped(j))}
ColsLines(n) == {j \in 1..n : IsColsLine(Stripped(j))}
DataLines(n) == {j \in 1..n : IsDataLine(Stripped(j))}

\* C8: a data line reached while rows or cols has not been seen fails with
\* HeaderMissing, whatever its fields; a second rows= (cols=) line fails with
\* DuplicateHeader; the end of the input with a header unseen fails with
\* MissingHeaders; so a parse that succeeds has met exactly one rows line and
\* exactly one cols line, both before every data line.
C8_HeaderOrdering ==
    /\ pc = "loop" =>
           /\ parsed_rows = (RowsLines(idx) /= {})
           /\ parsed_cols = (ColsLines(idx) /= {})
    /\ (pc \in {"loop", "raised"} /\ idx >= 1 /\ exc.kind /= "MissingHeaders") =>
           /\ (IsDataLine(Stripped(idx))
                 /\ (RowsLines(idx - 1) = {} \/ ColsLines(idx - 1) = {}))
                  => (pc = "raised" /\ exc.kind = "HeaderMissing")
           /\ (IsRowsLine(Stripped(idx)) /\ RowsLines(idx - 1) /= {})
                  => (pc = "raised" /\ exc.kind = "DuplicateHeader")
           /\ (IsColsLine(Stripped(idx)) /\ ColsLines(idx - 1) /= {})
                  => (pc = "raised" /\ exc.kind = "DuplicateHeader")
    /\ (pc = "raised" /\ exc.kind = "MissingHeaders") =>
           /\ idx = Len(lines)
           /\ (RowsLines(idx) = {} \/ ColsLines(idx) = {})
    /\ (pc \in {"loop", "done"} /\ idx = Len(lines)
           /\ (RowsLines(idx) = {} \/ ColsLines(idx) = {})) => pc = "loop"
    /\ pc = "done" =>
           /\ Cardinality(RowsLines(Len(lines))) = 1
           /\ Cardinality(ColsLines(Len(lines))) = 1
           /\ \A d \in DataLines(Len(lines)) :
                  \A h \in RowsLines(Len(lines)) \cup ColsLines(Len(lines)) : h < d

\* A data line with two fields only, met after rows= and before any cols=,
\* has failed with HeaderMissing.
C8_Witness ==
    /\ pc = "raised" /\ exc.kind = "HeaderMissing" /\ idx = 2
    /\ IsRowsLine(Stripped(1))
    /\ Len(split(Stripped(2), ",")) = 2

\* C9: for B and C of equal dimensions and A.cols = B.rows,
\* multiply(A, add(B, C)) and add(multiply(A, B), multiply(A, C)) have the
\* same dimensions and the same stored entries, and no call of the two fails.
C9_Distributive ==
    /\ last.exc = NoExc
    /\ Len(heap) = 8 =>
           /\ heap[5].rows = heap[8].rows
           /\ heap[5].cols = heap[8].cols
           /\ Entries(heap[5]) = Entries(heap[8])
           /\ Stored(heap[5]) = Stored(heap[8])

\* Both sides are computed; multiply(A, add(B, C)) adds up two products in
\* one cell, and stores an entry.
C9_Witness ==
    /\ Len(heap) = 8
    /\ \E e \in Entries(heap[5]) :
           /\ Get(heap[6], e[1], e[2]) /= 0
           /\ Get(heap[7], e[1], e[2]) /= 0
    /\ heap[2] /= heap[3]

\* A signed integer as the format defines it: an optional sign, then one or
\* more decimal digits, and nothing else.
IsSignedInteger(s) ==
    LET digits == IF s /= <<>> /\ Head(s) \in {"+", "-"} THEN Tail(s) ELSE s
    IN  digits /= <<>> /\ \A i \in 1..Len(digits) : IsDecimalChar(digits[i])

\* The substring after the first "=".
RECURSIVE AfterFirstEquals(_)
AfterFirstEquals(s) ==
    IF s = <<>> THEN <<>>
    ELSE IF Head(s) = "=" THEN Tail(s)
    ELSE AfterFirstEquals(Tail(s))

\* C10: a first rows= (cols=) line whose whole text after the first "=",
\* trimmed, is no signed integer (such as rows=2=3) fails with
\* MalformedHeader, and the dimension is not set.
C10_WholeValueValidated ==
    (pc \in {"loop", "raised"} /\ idx >= 1 /\ exc.kind /= "MissingHeaders") =>
        LET line == Stripped(idx)
            bad == ~IsSignedInteger(strip(AfterFirstEquals(line)))
        IN  /\ (IsRowsLine(line) /\ RowsLines(idx - 1) = {} /\ bad) =>
                   /\ pc = "raised" /\ exc.kind = "MalformedHeader"
                   /\ heap[Cur].rows = 0 /\ heap[Cur].file_declared_max_row = -2
            /\ (IsColsLine(line) /\ ColsLines(idx - 1) = {} /\ bad) =>
                   /\ pc = "raised" /\ exc.kind = "MalformedHeader"
                   /\ heap[Cur].cols = 0 /\ heap[Cur].file_declared_max_col = -2

====
